---- MODULE Spec2Model ----
(***************************************************************************)
(* Model of the SSD1312 OLED driver (src/src/lib.rs): the I2C protocol     *)
(* encoder, the 1024-byte framebuffer and its page/column addressing, the  *)
(* initialisation sequence, the flush and the drawing primitives, together *)
(* with a page-addressed display RAM standing for the device on the bus.   *)
(***************************************************************************)
EXTENDS Integers, Sequences, FiniteSets, TLC

VARIABLES
    buffer,     \* Ssd1312::buffer, [u8; 1024]: byte i of the array is buffer[i + 1]
    ram,        \* device display RAM: ram[p][c + 1] is page p, column c
    devPage,    \* device page pointer
    devCol,     \* device column pointer
    trace,      \* delays and bus writes of the last operation, in order
    result,     \* what the last operation returned: none / ok / err / panic
    op,         \* the last operation and its arguments
    pre,        \* the framebuffer before the last operation
    preRam,     \* the device RAM before the last operation
    op2,        \* the operation before the last one
    pre2,       \* the framebuffer before that operation
    ops         \* number of operations performed

vars == <<buffer, ram, devPage, devCol, trace, result, op, pre, preRam,
          op2, pre2, ops>>

(***************************************************************************)
(* Program constants.                                                      *)
(***************************************************************************)
SSD1312_I2C_ADDR == 60
SCREEN_WIDTH == 128
SCREEN_HEIGHT == 64
PAGE_COUNT == 8
BufferLen == 1024
MaxPayload == 128
ControlCommand == 0
ControlData == 64

(***************************************************************************)
(* Bounds of the exploration.                                              *)
(***************************************************************************)
MaxOps == 2
MaxPixelOps == 2
MaxInitOps == 1
MaxFlushOps == 1
MaxLineOps == 1
MaxSingleOps == 1
MaxEncoderOps == 1
MaxTextOps == 1
MaxCanvasOps == 1
MaxRasterOps == 1

(***************************************************************************)
(* u8 arithmetic.                                                          *)
(***************************************************************************)
Min(a, b) == IF a < b THEN a ELSE b

Bit(b, k) == (b \div (2 ^ k)) % 2

\* a | b on bytes
BitOr(a, b) ==
    LET B(k) == IF Bit(a, k) = 1 \/ Bit(b, k) = 1 THEN 2 ^ k ELSE 0
    IN  B(0) + B(1) + B(2) + B(3) + B(4) + B(5) + B(6) + B(7)

\* a & b on bytes
BitAnd(a, b) ==
    LET B(k) == IF Bit(a, k) = 1 /\ Bit(b, k) = 1 THEN 2 ^ k ELSE 0
    IN  B(0) + B(1) + B(2) + B(3) + B(4) + B(5) + B(6) + B(7)

\* !a on a byte
BitNot(a) == 255 - a

\* 1 << k on a byte
Shl1(k) == (2 ^ k) % 256

\* a >> k on a byte
Shr(a, k) == a \div (2 ^ k)

(***************************************************************************)
(* The device on the bus: a page-addressed display RAM.  A command         *)
(* 0xB0..0xB7 selects the page, 0x00..0x0F the low nibble of the column,   *)
(* 0x10..0x17 its high bits; every data byte is stored at the current      *)
(* page/column and advances the column within the page.                    *)
(***************************************************************************)
DevCommand(dev, c) ==
    IF c >= 176 /\ c <= 183 THEN [dev EXCEPT !.page = c - 176]
    ELSE IF c <= 15 THEN [dev EXCEPT !.col = (dev.col \div 16) * 16 + c]
    ELSE IF c >= 16 /\ c <= 23
         THEN [dev EXCEPT !.col = (c - 16) * 16 + (dev.col % 16)]
    ELSE dev

DevData(dev, data) ==
    LET n == Len(data)
        J(c) == ((c - dev.col + SCREEN_WIDTH) % SCREEN_WIDTH) + 1
        old == dev.ram[dev.page]
    IN  [ram  |-> [dev.ram EXCEPT ![dev.page] =
                      IF dev.col = 0 /\ n = SCREEN_WIDTH THEN data
                      ELSE [c \in 1..SCREEN_WIDTH |->
                               IF J(c - 1) <= n THEN data[J(c - 1)] ELSE old[c]]],
         page |-> dev.page,
         col  |-> (dev.col + n) % SCREEN_WIDTH]

DevWrite(dev, bytes) ==
    IF Len(bytes) < 2 THEN dev
    ELSE IF bytes[1] = ControlCommand THEN DevCommand(dev, bytes[2])
    ELSE IF bytes[1] = ControlData THEN DevData(dev, Tail(bytes))
    ELSE dev

(***************************************************************************)
(* The bus transport.  bus.failAt is the number of the write of the        *)
(* current operation that the transport reports as failed (0: none), and   *)
(* bus.applied tells whether that write reached the device all the same.   *)
(***************************************************************************)
NoFail == [failAt |-> 0, applied |-> FALSE]

Event(kind, addr, bytes, ok, ms) ==
    [kind |-> kind, addr |-> addr, bytes |-> bytes, ok |-> ok, ms |-> ms]

DelayEvent(ms) == Event("delay", 0, <<>>, TRUE, ms)

WriteEvent(addr, bytes, ok) == Event("write", addr, bytes, ok, 0)

\* the driver's view of the outside world while one operation runs
NewIo(r, p, c) == [trace |-> <<>>, n |-> 0, res |-> "ok",
                   ram |-> r, page |-> p, col |-> c]

Ok(io) == [io EXCEPT !.res = "ok"]

\* self.i2c.write(addr, bytes)
i2c_write(io, bus, addr, bytes) ==
    LET k     == io.n + 1
        fails == bus.failAt = k
        dev   == [ram |-> io.ram, page |-> io.page, col |-> io.col]
        dev2  == IF fails /\ ~bus.applied THEN dev ELSE DevWrite(dev, bytes)
    IN  [trace |-> Append(io.trace, WriteEvent(addr, bytes, ~fails)),
         n     |-> k,
         res   |-> IF fails THEN "err" ELSE "ok",
         ram   |-> dev2.ram,
         page  |-> dev2.page,
         col   |-> dev2.col]

\* delay.delay_ms(ms)
delay_ms(io, ms) == [io EXCEPT !.trace = Append(io.trace, DelayEvent(ms))]

(***************************************************************************)
(* Protocol encoder.                                                       *)
(***************************************************************************)
\* send_command with the continuation bit set in the control byte
send_command_co(io, bus, cmd) ==
    i2c_write(io, bus, SSD1312_I2C_ADDR, <<128, cmd>>)


send_command(io, bus, cmd) ==
    i2c_write(io, bus, SSD1312_I2C_ADDR, <<ControlCommand, cmd>>)

\* send_commands dropping the result of each command
RECURSIVE send_commands_all(_, _, _)
send_commands_all(io, bus, cmds) ==
    IF cmds = <<>> THEN io
    ELSE send_commands_all(send_command(io, bus, Head(cmds)), bus, Tail(cmds))

RECURSIVE send_commands(_, _, _)
send_commands(io, bus, cmds) ==
    IF cmds = <<>> THEN Ok(io)
    ELSE LET s == send_command(io, bus, Head(cmds))
         IN  IF s.res # "ok" THEN s ELSE send_commands(s, bus, Tail(cmds))

\* send_data sending the whole payload in one transaction
send_data_untruncated(io, bus, data) ==
    IF data = <<>> THEN Ok(io)
    ELSE i2c_write(io, bus, SSD1312_I2C_ADDR, <<ControlData>> \o data)

\* send_data without the test for an empty payload
send_data_always(io, bus, data) ==
    LET len == Min(Len(data), MaxPayload)
    IN  i2c_write(io, bus, SSD1312_I2C_ADDR, <<ControlData>> \o SubSeq(data, 1, len))


send_data(io, bus, data) ==
    IF data = <<>> THEN Ok(io)
    ELSE LET len == Min(Len(data), MaxPayload)
         IN  i2c_write(io, bus, SSD1312_I2C_ADDR,
                       <<ControlData>> \o SubSeq(data, 1, len))

set_page(io, bus, page) ==
    IF page < 8 THEN send_command(io, bus, BitOr(176, page)) ELSE Ok(io)

\* set_column sending the high nibble first
set_column_swapped(io, bus, col) ==
    IF col < 128
    THEN LET s == send_command(io, bus, BitOr(16, Shr(col, 4)))
         IN  IF s.res # "ok" THEN s
             ELSE send_command(s, bus, BitAnd(col, 15))
    ELSE Ok(io)

\* set_column going on after a failed first command
set_column_unchecked(io, bus, col) ==
    IF col < 128
    THEN send_command(send_command(io, bus, BitAnd(col, 15)), bus, BitOr(16, Shr(col, 4)))
    ELSE Ok(io)


set_column(io, bus, col) ==
    IF col < 128
    THEN LET s == send_command(io, bus, BitAnd(col, 15))
         IN  IF s.res # "ok" THEN s
             ELSE send_command(s, bus, BitOr(16, Shr(col, 4)))
    ELSE Ok(io)

(***************************************************************************)
(* Framebuffer and addressing.                                             *)
(***************************************************************************)
\* self.buffer[index]
Byte(buf, index) == buf[index + 1]

ZeroBuffer == [i \in 1..BufferLen |-> 0]

PixelPage(y) == y \div 8

PixelBit(y) == y % 8

\* row-major addressing, a byte holding 8 horizontal pixels
PixelIndex_rows(x, y) == y * (SCREEN_WIDTH \div 8) + (x \div 8)


PixelIndex(x, y) == PixelPage(y) * SCREEN_WIDTH + x

\* fill stopping one byte short
clear_buffer_short(buf) == [i \in DOMAIN buf |-> IF i < BufferLen THEN 0 ELSE buf[i]]


clear_buffer(buf) == [i \in DOMAIN buf |-> 0]

\* set_pixel relying on the index check alone
set_pixel_unclipped(buf, x, y, on) ==
    LET index == PixelIndex(x, y)
        bit_pos == PixelBit(y)
    IN  IF index < BufferLen
        THEN IF on
             THEN [buf EXCEPT ![index + 1] = BitOr(Byte(buf, index), Shl1(bit_pos))]
             ELSE [buf EXCEPT ![index + 1] = BitAnd(Byte(buf, index), BitNot(Shl1(bit_pos)))]
        ELSE buf

\* set_pixel whose "on" branch toggles the bit instead of setting it
set_pixel_toggle(buf, x, y, on) ==
    IF x >= SCREEN_WIDTH \/ y >= SCREEN_HEIGHT THEN buf
    ELSE LET index == PixelIndex(x, y)
             bit_pos == PixelBit(y)
             old == Byte(buf, index)
         IN  IF on
             THEN [buf EXCEPT ![index + 1] =
                      IF Bit(old, bit_pos) = 1 THEN old - Shl1(bit_pos) ELSE old + Shl1(bit_pos)]
             ELSE [buf EXCEPT ![index + 1] = BitAnd(old, BitNot(Shl1(bit_pos)))]

\* set_pixel whose "off" branch masks with the bit instead of its complement
set_pixel_badmask(buf, x, y, on) ==
    IF x >= SCREEN_WIDTH \/ y >= SCREEN_HEIGHT THEN buf
    ELSE LET index == PixelIndex(x, y)
             bit_pos == PixelBit(y)
         IN  IF on
             THEN [buf EXCEPT ![index + 1] = BitOr(Byte(buf, index), Shl1(bit_pos))]
             ELSE [buf EXCEPT ![index + 1] = BitAnd(Byte(buf, index), Shl1(bit_pos))]


set_pixel(buf, x, y, on) ==
    IF x >= SCREEN_WIDTH \/ y >= SCREEN_HEIGHT THEN buf
    ELSE LET index == PixelIndex(x, y)
             bit_pos == PixelBit(y)
         IN  IF index < BufferLen
             THEN IF on
                  THEN [buf EXCEPT ![index + 1] = BitOr(Byte(buf, index), Shl1(bit_pos))]
                  ELSE [buf EXCEPT ![index + 1] =
                                       BitAnd(Byte(buf, index), BitNot(Shl1(bit_pos)))]
             ELSE buf

(***************************************************************************)
(* Flush: the framebuffer is sent page by page.                            *)
(***************************************************************************)
\* a slice with an inclusive upper bound taken one byte short
Slice_short(buf, start_idx, end_idx) == SubSeq(buf, start_idx + 1, end_idx - 1)


\* &self.buffer[start_idx..end_idx]
Slice(buf, start_idx, end_idx) == SubSeq(buf, start_idx + 1, end_idx)


RECURSIVE display_from(_, _, _, _)
display_from(io, bus, buf, page) ==
    IF page >= PAGE_COUNT THEN Ok(io)
    ELSE LET s1 == set_page(io, bus, page)
         IN  IF s1.res # "ok" THEN s1
             ELSE LET s2 == set_column(s1, bus, 0)
                  IN  IF s2.res # "ok" THEN s2
                      ELSE LET start_idx == page * SCREEN_WIDTH
                               end_idx == start_idx + SCREEN_WIDTH
                               s3 == IF end_idx <= BufferLen
                                     THEN send_data(s2, bus, Slice(buf, start_idx, end_idx))
                                     ELSE s2
                           IN  IF s3.res # "ok" THEN s3
                               ELSE display_from(s3, bus, buf, page + 1)

display(io, bus, buf) == display_from(io, bus, buf, 0)

clear(io, bus, buf) == display(io, bus, clear_buffer(buf))

(***************************************************************************)
(* Immediate single-pixel path.                                            *)
(***************************************************************************)
\* draw_pixel that selects the page but not the column
draw_pixel_nocolumn(io, bus, buf, x, y) ==
    IF x < SCREEN_WIDTH /\ y < SCREEN_HEIGHT
    THEN LET page == y \div 8
             s1 == set_page(io, bus, page)
         IN  IF s1.res # "ok" THEN s1
             ELSE send_data(s1, bus, <<Byte(buf, page * SCREEN_WIDTH + x)>>)
    ELSE Ok(io)


draw_pixel(io, bus, buf, x, y) ==
    IF x < SCREEN_WIDTH /\ y < SCREEN_HEIGHT
    THEN LET page == y \div 8
             s1 == set_page(io, bus, page)
         IN  IF s1.res # "ok" THEN s1
             ELSE LET s2 == set_column(s1, bus, x)
                  IN  IF s2.res # "ok" THEN s2
                      ELSE LET index == page * SCREEN_WIDTH + x
                           IN  IF index < BufferLen
                               THEN send_data(s2, bus, <<Byte(buf, index)>>)
                               ELSE s2
    ELSE Ok(io)

(***************************************************************************)
(* Horizontal and vertical lines.  x + i and y + i are u8 additions: when  *)
(* the sum exceeds 255 the build either panics or wraps (wraps = TRUE).    *)
(* The outcome is the framebuffer and whether the call panicked.           *)
(***************************************************************************)
Drawn(buf, panic) == [buf |-> buf, panic |-> panic]

\* one iteration of the loop of draw_horizontal_line
horizontal_step(d, x, y, i, wraps) ==
    IF d.panic THEN d
    ELSE IF x + i > 255 /\ ~wraps THEN Drawn(d.buf, TRUE)
    ELSE LET xi == (x + i) % 256
         IN  Drawn(IF xi < SCREEN_WIDTH THEN set_pixel(d.buf, xi, y, TRUE) ELSE d.buf, FALSE)

\* the iterations lo..hi-1 in order (the range is halved to keep the evaluation shallow)
RECURSIVE horizontal_range(_, _, _, _, _, _)
horizontal_range(d, x, y, lo, hi, wraps) ==
    IF lo >= hi \/ d.panic THEN d
    ELSE IF hi = lo + 1 THEN horizontal_step(d, x, y, lo, wraps)
    ELSE LET mid == (lo + hi) \div 2
             d1 == horizontal_range(d, x, y, lo, mid, wraps)
         IN  IF d1.panic THEN d1 ELSE horizontal_range(d1, x, y, mid, hi, wraps)

draw_horizontal_line(buf, x, y, width, wraps) ==
    horizontal_range(Drawn(buf, FALSE), x, y, 0, width, wraps)

\* one iteration of the loop of draw_vertical_line
vertical_step(d, x, y, i, wraps) ==
    IF d.panic THEN d
    ELSE IF y + i > 255 /\ ~wraps THEN Drawn(d.buf, TRUE)
    ELSE LET yi == (y + i) % 256
         IN  Drawn(IF yi < SCREEN_HEIGHT THEN set_pixel(d.buf, x, yi, TRUE) ELSE d.buf, FALSE)

RECURSIVE vertical_range(_, _, _, _, _, _)
vertical_range(d, x, y, lo, hi, wraps) ==
    IF lo >= hi \/ d.panic THEN d
    ELSE IF hi = lo + 1 THEN vertical_step(d, x, y, lo, wraps)
    ELSE LET mid == (lo + hi) \div 2
             d1 == vertical_range(d, x, y, lo, mid, wraps)
         IN  IF d1.panic THEN d1 ELSE vertical_range(d1, x, y, mid, hi, wraps)

draw_vertical_line(buf, x, y, height, wraps) ==
    vertical_range(Drawn(buf, FALSE), x, y, 0, height, wraps)

(***************************************************************************)
(* Canvas adapter: DrawTarget::draw_iter and OriginDimensions::size.       *)
(***************************************************************************)
Pixel(x, y, on) == [x |-> x, y |-> y, on |-> on]

\* v as u8
AsU8(v) == v % 256

\* the loop body of draw_iter narrowing the coordinates without the range test
draw_iter_step_narrowing(d, px) ==
    Drawn(set_pixel(d.buf, AsU8(px.x), AsU8(px.y), px.on), FALSE)


\* one iteration of the loop of draw_iter
draw_iter_step(d, px) ==
    Drawn(IF px.x >= 0 /\ px.x < SCREEN_WIDTH /\ px.y >= 0 /\ px.y < SCREEN_HEIGHT
          THEN set_pixel(d.buf, AsU8(px.x), AsU8(px.y), px.on)
          ELSE d.buf,
          FALSE)

\* the pixels lo..hi-1 of the sequence in order
RECURSIVE draw_iter_range(_, _, _, _)
draw_iter_range(d, pixels, lo, hi) ==
    IF lo >= hi \/ d.panic THEN d
    ELSE IF hi = lo + 1 THEN draw_iter_step(d, pixels[lo])
    ELSE LET mid == (lo + hi) \div 2
             d1 == draw_iter_range(d, pixels, lo, mid)
         IN  IF d1.panic THEN d1 ELSE draw_iter_range(d1, pixels, mid, hi)

draw_iter(buf, pixels) ==
    draw_iter_range(Drawn(buf, FALSE), pixels, 1, Len(pixels) + 1).buf

size == <<SCREEN_WIDTH, SCREEN_HEIGHT>>

(***************************************************************************)
(* The rasterizer behind the canvas adapter (embedded-graphics): for a     *)
(* rectangle, a line or a run of glyphs it yields the pixels to set, all   *)
(* in the colour of the style.                                             *)
(***************************************************************************)
\* the w * h points of a rectangle, row by row
RectPoints(x, y, w, h) ==
    [i \in 1..(w * h) |-> Pixel(x + ((i - 1) % w), y + ((i - 1) \div w), TRUE)]

RectFillPixels(x, y, w, h) == RectPoints(x, y, w, h)

RectStrokePixels(x, y, w, h) ==
    LET OnBorder(q) == q.x = x \/ q.x = x + w - 1 \/ q.y = y \/ q.y = y + h - 1
    IN  SelectSeq(RectPoints(x, y, w, h), OnBorder)

Abs(v) == IF v < 0 THEN -v ELSE v

Sign(v) == IF v < 0 THEN -1 ELSE IF v > 0 THEN 1 ELSE 0

\* Bresenham from (x, y) to (x1, y1), both ends included
RECURSIVE LineFrom(_, _, _, _, _, _, _)
LineFrom(x, y, x1, y1, dx, dy, err) ==
    IF x = x1 /\ y = y1 THEN <<Pixel(x, y, TRUE)>>
    ELSE LET stepX == 2 * err > -dy
             stepY == 2 * err < dx
             nx == IF stepX THEN x + Sign(x1 - x) ELSE x
             ny == IF stepY THEN y + Sign(y1 - y) ELSE y
             e1 == IF stepX THEN err - dy ELSE err
             e2 == IF stepY THEN e1 + dx ELSE e1
         IN  <<Pixel(x, y, TRUE)>> \o LineFrom(nx, ny, x1, y1, dx, dy, e2)

LinePixels(x0, y0, x1, y1) ==
    LineFrom(x0, y0, x1, y1, Abs(x1 - x0), Abs(y1 - y0), Abs(x1 - x0) - Abs(y1 - y0))

\* stand-in glyph bitmaps: which dots of character ch are lit
GlyphOn(ch, dx, dy) == (ch + 2 * dx + dy) % 3 = 0

RECURSIVE TextPixels(_, _, _, _, _)
TextPixels(text, x, y, fw, fh) ==
    IF text = <<>> THEN <<>>
    ELSE LET Lit(q) == GlyphOn(Head(text), q.x - x, q.y - y)
         IN  SelectSeq(RectPoints(x, y, fw, fh), Lit)
             \o TextPixels(Tail(text), x + fw, y, fw, fh)

\* (a / b) on i32: the quotient is truncated towards zero
TruncDiv(a, b) == IF a >= 0 THEN a \div b ELSE -((-a) \div b)

(***************************************************************************)
(* i32 arithmetic of draw_text_centered.  An integer v is held as the pair *)
(* (q, r) with v = q * 65536 + r and 0 <= r < 65536, so that a product or  *)
(* a difference that leaves the i32 range can still be written down; it is *)
(* in the i32 range exactly when -32768 <= q <= 32767.  When a result      *)
(* leaves the range the build either panics or wraps (wraps = TRUE).       *)
(***************************************************************************)
Wide(q, r) == [q |-> q, r |-> r]

WideOf(v) == Wide(v \div 65536, v % 65536)

\* n * a for a small natural n
WideMul(n, a) == Wide(n * a.q + ((n * a.r) \div 65536), (n * a.r) % 65536)

\* c - a for a small natural c
WideSubFrom(c, a) ==
    IF c - a.r < 0 THEN Wide(-a.q - 1, c - a.r + 65536) ELSE Wide(-a.q, c - a.r)

WideFloorHalf(a) == Wide(a.q \div 2, ((a.q % 2) * 65536 + a.r) \div 2)

\* a / 2 truncated towards zero
WideHalf(a) ==
    IF a.q >= 0 THEN WideFloorHalf(a)
    ELSE WideFloorHalf(IF a.r = 65535 THEN Wide(a.q + 1, 0) ELSE Wide(a.q, a.r + 1))

WideFits(a) == a.q >= -32768 /\ a.q <= 32767

\* the i32 left by wrapping arithmetic
WideWrap(a) == Wide(((a.q + 32768) % 65536) - 32768, a.r)

\* the value of a pair that is in the i32 range
WideValue(a) == a.q * 65536 + a.r

\* x in draw_text_centered using a flooring division
CenteredX_floor(text, font_width, wraps) ==
    LET text_width == WideMul(Len(text), WideOf(font_width))
        diff == WideSubFrom(SCREEN_WIDTH, WideWrap(text_width))
    IN  IF ~wraps /\ (~WideFits(text_width) \/ ~WideFits(diff))
        THEN [x |-> 0, panic |-> TRUE]
        ELSE [x |-> WideValue(WideFloorHalf(WideWrap(diff))), panic |-> FALSE]


\* text_width and x in draw_text_centered
CenteredX(text, font_width, wraps) ==
    LET text_width == WideMul(Len(text), WideOf(font_width))
        diff == WideSubFrom(SCREEN_WIDTH, WideWrap(text_width))
    IN  IF ~wraps /\ (~WideFits(text_width) \/ ~WideFits(diff))
        THEN [x |-> 0, panic |-> TRUE]
        ELSE [x |-> WideValue(WideHalf(WideWrap(diff))), panic |-> FALSE]

(***************************************************************************)
(* Initialisation sequence: the command groups of init, in source order.   *)
(***************************************************************************)
InitGroups ==
    << <<174>>,          \* 0xAE display off
       <<213, 128>>,     \* 0xD5 0x80 clock divide ratio / oscillator
       <<168, 63>>,      \* 0xA8 0x3F multiplex ratio 64
       <<211, 0>>,       \* 0xD3 0x00 display offset
       <<64>>,           \* 0x40 start line 0
       <<141, 18>>,      \* 0x8D 0x12 charge pump
       <<32, 2>>,        \* 0x20 0x02 page addressing mode
       <<160>>,          \* 0xA0 segment remap
       <<200>>,          \* 0xC8 COM scan direction
       <<218, 18>>,      \* 0xDA 0x12 COM pin configuration
       <<129, 127>>,     \* 0x81 0x7F contrast
       <<217, 34>>,      \* 0xD9 0x22 pre-charge
       <<219, 32>>,      \* 0xDB 0x20 VCOMH
       <<164>>,          \* 0xA4 resume RAM content
       <<166>>,          \* 0xA6 normal display
       <<175>> >>        \* 0xAF display on

RECURSIVE init_from(_, _, _)
init_from(io, bus, groups) ==
    IF groups = <<>> THEN Ok(delay_ms(io, 100))
    ELSE LET s == send_commands(io, bus, Head(groups))
         IN  IF s.res # "ok" THEN s ELSE init_from(s, bus, Tail(groups))

\* init without the first settle delay
init_unsettled(io, bus) == init_from(io, bus, InitGroups)


init(io, bus) == init_from(delay_ms(io, 20), bus, InitGroups)

(***************************************************************************)
(* State.                                                                  *)
(***************************************************************************)
OpRec(name, x, y, w, h, on, bus) ==
    [name |-> name, x |-> x, y |-> y, w |-> w, h |-> h, on |-> on,
     failAt |-> bus.failAt, applied |-> bus.applied, pixels |-> <<>>]

NoOp == OpRec("new", 0, 0, 0, 0, FALSE, NoFail)

FullBuffer(v) == [i \in 1..BufferLen |-> v]

FullRam(v) == [p \in 0..(PAGE_COUNT - 1) |-> [c \in 1..SCREEN_WIDTH |-> v]]

\* the display RAM is not cleared at power-up: it holds some stale image
PowerOnRam ==
    [p \in 0..(PAGE_COUNT - 1) |-> [c \in 1..SCREEN_WIDTH |-> (p * 32 + c + 128) % 256]]

\* the display RAM holding the image of buf, as a completed flush leaves it
RamOf(buf) ==
    [p \in 0..(PAGE_COUNT - 1) |-> SubSeq(buf, p * SCREEN_WIDTH + 1, (p + 1) * SCREEN_WIDTH)]

\* framebuffer contents the program can have reached
PatternBuffer == [i \in 1..BufferLen |-> (i * 7 + 3) % 256]

BufferSamples == {ZeroBuffer, FullBuffer(255), PatternBuffer}

InitWith(buf, r) ==
    /\ buffer = buf
    /\ ram = r
    /\ devPage = 0
    /\ devCol = 0
    /\ trace = <<>>
    /\ result = "none"
    /\ op = NoOp
    /\ pre = buf
    /\ preRam = r
    /\ op2 = NoOp
    /\ pre2 = buf
    /\ ops = 0

\* Ssd1312::new: the framebuffer is zeroed, the device RAM is what it is
Init == InitWith(ZeroBuffer, PowerOnRam)

Alive == result # "panic"

\* bookkeeping common to all operations
Record(o) ==
    /\ op' = o
    /\ op2' = op
    /\ pre' = buffer
    /\ pre2' = pre
    /\ preRam' = ram
    /\ ops' = ops + 1

\* an operation that talks to the bus: io is its outcome
Io == NewIo(ram, devPage, devCol)

Commit(io) ==
    /\ ram' = io.ram
    /\ devPage' = io.page
    /\ devCol' = io.col
    /\ trace' = io.trace
    /\ result' = io.res

\* an operation that only touches the framebuffer
NoBus ==
    /\ UNCHANGED <<ram, devPage, devCol>>
    /\ trace' = <<>>
    /\ result' = "ok"

(***************************************************************************)
(* Operations of the driver.                                               *)
(***************************************************************************)
Init_(bus) ==
    /\ Alive
    /\ Commit(init(Io, bus))
    /\ buffer' = buffer
    /\ Record(OpRec("init", 0, 0, 0, 0, FALSE, bus))

ClearBuffer ==
    /\ Alive
    /\ buffer' = clear_buffer(buffer)
    /\ NoBus
    /\ Record(OpRec("clear_buffer", 0, 0, 0, 0, FALSE, NoFail))

SetPixel(x, y, on) ==
    /\ Alive
    /\ buffer' = set_pixel(buffer, x, y, on)
    /\ NoBus
    /\ Record(OpRec("set_pixel", x, y, 0, 0, on, NoFail))

Display(bus) ==
    /\ Alive
    /\ Commit(display(Io, bus, buffer))
    /\ buffer' = buffer
    /\ Record(OpRec("display", 0, 0, 0, 0, FALSE, bus))

Clear(bus) ==
    /\ Alive
    /\ buffer' = clear_buffer(buffer)
    /\ Commit(clear(Io, bus, buffer))
    /\ Record(OpRec("clear", 0, 0, 0, 0, FALSE, bus))

\* draw_pixel sending the byte as it was before the pixel was set
DrawPixel_stale(x, y, bus) ==
    /\ Alive
    /\ buffer' = set_pixel(buffer, x, y, TRUE)
    /\ Commit(draw_pixel(Io, bus, buffer, x, y))
    /\ Record(OpRec("draw_pixel", x, y, 0, 0, TRUE, bus))


DrawPixel(x, y, bus) ==
    /\ Alive
    /\ buffer' = set_pixel(buffer, x, y, TRUE)
    /\ Commit(draw_pixel(Io, bus, set_pixel(buffer, x, y, TRUE), x, y))
    /\ Record(OpRec("draw_pixel", x, y, 0, 0, TRUE, bus))

\* a flush issued before the mutation is stored
Flush_early(d, bus) ==
    /\ buffer' = d.buf
    /\ IF d.panic
       THEN /\ UNCHANGED <<ram, devPage, devCol>>
            /\ trace' = <<>>
            /\ result' = "panic"
       ELSE Commit(display(Io, bus, buffer))


\* a primitive that has mutated the framebuffer into d.buf: flush unless it panicked
Flush(d, bus) ==
    /\ buffer' = d.buf
    /\ IF d.panic
       THEN /\ UNCHANGED <<ram, devPage, devCol>>
            /\ trace' = <<>>
            /\ result' = "panic"
       ELSE Commit(display(Io, bus, d.buf))

DrawHorizontalLine(x, y, width, wraps, bus) ==
    /\ Alive
    /\ Flush(draw_horizontal_line(buffer, x, y, width, wraps), bus)
    /\ Record(OpRec("draw_horizontal_line", x, y, width, 0, wraps, bus))

DrawVerticalLine(x, y, height, wraps, bus) ==
    /\ Alive
    /\ Flush(draw_vertical_line(buffer, x, y, height, wraps), bus)
    /\ Record(OpRec("draw_vertical_line", x, y, 0, height, wraps, bus))

DrawRect(x, y, width, height, bus) ==
    /\ Alive
    /\ Flush(Drawn(draw_iter(buffer, RectStrokePixels(x, y, width, height)), FALSE), bus)
    /\ Record(OpRec("draw_rect", x, y, width, height, TRUE, bus))

FillRect(x, y, width, height, bus) ==
    /\ Alive
    /\ Flush(Drawn(draw_iter(buffer, RectFillPixels(x, y, width, height)), FALSE), bus)
    /\ Record(OpRec("fill_rect", x, y, width, height, TRUE, bus))

DrawLine(x0, y0, x1, y1, bus) ==
    /\ Alive
    /\ Flush(Drawn(draw_iter(buffer, LinePixels(x0, y0, x1, y1)), FALSE), bus)
    /\ Record(OpRec("draw_line", x0, y0, x1, y1, TRUE, bus))

draw_text_small(buf, text, x, y) == draw_iter(buf, TextPixels(text, x, y, 6, 10))

draw_text_medium(buf, text, x, y) == draw_iter(buf, TextPixels(text, x, y, 8, 13))

DrawTextSmall(text, x, y, bus) ==
    /\ Alive
    /\ Flush(Drawn(draw_text_small(buffer, text, x, y), FALSE), bus)
    /\ Record(OpRec("draw_text_small", x, y, Len(text), 0, TRUE, bus))

DrawTextMedium(text, x, y, bus) ==
    /\ Alive
    /\ Flush(Drawn(draw_text_medium(buffer, text, x, y), FALSE), bus)
    /\ Record(OpRec("draw_text_medium", x, y, Len(text), 0, TRUE, bus))

DrawTextCentered(text, y, font_width, wraps, bus) ==
    LET c == CenteredX(text, font_width, wraps)
    IN  /\ Alive
        /\ Flush(IF c.panic THEN Drawn(buffer, TRUE)
                 ELSE Drawn(draw_text_small(buffer, text, c.x, y), FALSE), bus)
        /\ Record(OpRec("draw_text_centered", c.x, y, Len(text), font_width, wraps, bus))

\* set_display_on with the two commands exchanged
SetDisplayOn_swapped(on, bus) ==
    /\ Alive
    /\ Commit(send_command(Io, bus, IF on THEN 174 ELSE 175))
    /\ buffer' = buffer
    /\ Record(OpRec("set_display_on", 0, 0, 0, 0, on, bus))


SetDisplayOn(on, bus) ==
    /\ Alive
    /\ Commit(send_command(Io, bus, IF on THEN 175 ELSE 174))
    /\ buffer' = buffer
    /\ Record(OpRec("set_display_on", 0, 0, 0, 0, on, bus))

SetContrast(contrast, bus) ==
    /\ Alive
    /\ Commit(send_commands(Io, bus, <<129, contrast>>))
    /\ buffer' = buffer
    /\ Record(OpRec("set_contrast", contrast, 0, 0, 0, FALSE, bus))

SetInvert(invert, bus) ==
    /\ Alive
    /\ Commit(send_command(Io, bus, IF invert THEN 167 ELSE 166))
    /\ buffer' = buffer
    /\ Record(OpRec("set_invert", 0, 0, 0, 0, invert, bus))

\* a rasterizer drawing on the driver through DrawTarget
DrawIter(pixels) ==
    /\ Alive
    /\ buffer' = draw_iter(buffer, pixels)
    /\ NoBus
    /\ Record([OpRec("draw_iter", Len(pixels), 0, 0, 0, FALSE, NoFail) EXCEPT !.pixels = pixels])

(***************************************************************************)
(* Inputs.                                                                 *)
(***************************************************************************)
\* every way the bus can fail within the first n writes of an operation
BusUpTo(n) ==
    {NoFail} \cup [failAt : 1..n, applied : BOOLEAN]

\* in-bounds corners and an inner point, then points off one or both edges
PixelSamples ==
    ({0, 5, 127} \X {0, 9, 63})
        \cup {<<128, 0>>, <<0, 64>>, <<128, 64>>, <<255, 9>>, <<5, 255>>, <<255, 255>>}

(***************************************************************************)
(* Framebuffer specification: set_pixel and clear_buffer on any buffer.    *)
(***************************************************************************)
\* a driver whose framebuffer holds some image, on a device just powered up
InitPixel == \E b \in BufferSamples : InitWith(b, PowerOnRam)

PixelSetPixel ==
    /\ ops < MaxPixelOps
    /\ \E q \in PixelSamples, on \in BOOLEAN : SetPixel(q[1], q[2], on)

PixelClearBuffer ==
    /\ ops < MaxPixelOps
    /\ ClearBuffer

NextPixel == PixelSetPixel \/ PixelClearBuffer

SpecPixel == InitPixel /\ [][NextPixel]_vars

(***************************************************************************)
(* Flush specification: display and clear under every bus failure.         *)
(***************************************************************************)
FlushWrites == 4 * PAGE_COUNT

InitFlush == \E b \in BufferSamples, r \in {PowerOnRam, FullRam(0)} : InitWith(b, r)

FlushDisplay ==
    /\ ops < MaxFlushOps
    /\ \E bus \in BusUpTo(FlushWrites) : Display(bus)

FlushClear ==
    /\ ops < MaxFlushOps
    /\ \E bus \in {NoFail, [failAt |-> 6, applied |-> FALSE],
                 [failAt |-> FlushWrites, applied |-> TRUE]} : Clear(bus)

NextFlush == FlushDisplay \/ FlushClear

SpecFlush == InitFlush /\ [][NextFlush]_vars

(***************************************************************************)
(* Initialisation specification: init and the control commands under       *)
(* every bus failure.                                                      *)
(***************************************************************************)
RECURSIVE CountCommands(_)
CountCommands(groups) ==
    IF groups = <<>> THEN 0 ELSE Len(Head(groups)) + CountCommands(Tail(groups))

\* the number of bus writes of a successful init
InitWrites == CountCommands(InitGroups)

InitRun ==
    /\ ops < MaxInitOps
    /\ \E bus \in BusUpTo(InitWrites) : Init_(bus)

InitSetContrast ==
    /\ ops < MaxInitOps
    /\ \E v \in {0, 127, 179, 255}, bus \in BusUpTo(2) : SetContrast(v, bus)

InitSetInvert ==
    /\ ops < MaxInitOps
    /\ \E b \in BOOLEAN, bus \in BusUpTo(1) : SetInvert(b, bus)

InitSetDisplayOn ==
    /\ ops < MaxInitOps
    /\ \E b \in BOOLEAN, bus \in BusUpTo(1) : SetDisplayOn(b, bus)

NextInit == InitRun \/ InitSetContrast \/ InitSetInvert \/ InitSetDisplayOn

SpecInit == InitPixel /\ [][NextInit]_vars

(***************************************************************************)
(* The driver as a whole: every public operation, in any order.            *)
(***************************************************************************)
FailEarly == [failAt |-> 2, applied |-> FALSE]

FailLate == [failAt |-> 8, applied |-> TRUE]

FailData == [failAt |-> 4, applied |-> FALSE]

BusSome == {NoFail, FailEarly}

Hi == <<72, 105>>

DoInit ==
    /\ ops < MaxOps
    /\ \E bus \in BusSome : Init_(bus)

DoClearBuffer ==
    /\ ops < MaxOps
    /\ ClearBuffer

DoSetPixel ==
    /\ ops < MaxOps
    /\ \E q \in {<<5, 9, TRUE>>, <<5, 9, FALSE>>, <<128, 9, TRUE>>} :
           SetPixel(q[1], q[2], q[3])

DoDisplay ==
    /\ ops < MaxOps
    /\ \E bus \in {NoFail, FailEarly, FailLate} : Display(bus)

DoClear ==
    /\ ops < MaxOps
    /\ \E bus \in BusSome : Clear(bus)

DoDrawPixel ==
    /\ ops < MaxOps
    /\ \E q \in {<<0, 0, NoFail>>, <<100, 20, FailData>>, <<5, 64, NoFail>>} :
           DrawPixel(q[1], q[2], q[3])

DoDrawHorizontalLine ==
    /\ ops < MaxOps
    /\ \E q \in {<<126, 3, 4, FALSE>>, <<250, 3, 8, FALSE>>, <<250, 3, 8, TRUE>>} :
           DrawHorizontalLine(q[1], q[2], q[3], q[4], NoFail)

DoDrawVerticalLine ==
    /\ ops < MaxOps
    /\ \E q \in {<<2, 62, 4, FALSE>>, <<2, 250, 8, FALSE>>, <<2, 250, 8, TRUE>>} :
           DrawVerticalLine(q[1], q[2], q[3], q[4], NoFail)

DoDrawRect ==
    /\ ops < MaxOps
    /\ \E bus \in BusSome : DrawRect(125, 60, 5, 3, bus)

DoFillRect ==
    /\ ops < MaxOps
    /\ FillRect(10, 30, 3, 4, NoFail)

DoDrawLine ==
    /\ ops < MaxOps
    /\ DrawLine(-2, 40, 3, 43, NoFail)

DoDrawTextSmall ==
    /\ ops < MaxOps
    /\ \E bus \in BusSome : DrawTextSmall(Hi, 58, 10, bus)

DoDrawTextMedium ==
    /\ ops < MaxOps
    /\ DrawTextMedium(<<65>>, 124, 56, NoFail)

DoDrawTextCentered ==
    /\ ops < MaxOps
    /\ \E q \in {<<20, 6>>, <<30, 65>>} : DrawTextCentered(Hi, q[1], q[2], FALSE, NoFail)

DoSetDisplayOn ==
    /\ ops < MaxOps
    /\ \E b \in BOOLEAN : SetDisplayOn(b, NoFail)

DoSetContrast ==
    /\ ops < MaxOps
    /\ \E bus \in BusSome : SetContrast(179, bus)

DoSetInvert ==
    /\ ops < MaxOps
    /\ \E b \in BOOLEAN : SetInvert(b, NoFail)

DoDrawIter ==
    /\ ops < MaxOps
    /\ \E pixels \in {<<Pixel(5, 9, TRUE), Pixel(5, 9, FALSE), Pixel(6, 9, TRUE)>>,
                      <<Pixel(-1, 9, TRUE), Pixel(261, 9, TRUE), Pixel(5, 265, TRUE),
                        Pixel(5, -247, TRUE), Pixel(127, 0, FALSE)>>} : DrawIter(pixels)

Next ==
    \/ DoInit \/ DoClearBuffer \/ DoSetPixel \/ DoDisplay \/ DoClear \/ DoDrawPixel
    \/ DoDrawHorizontalLine \/ DoDrawVerticalLine \/ DoDrawRect \/ DoFillRect
    \/ DoDrawLine \/ DoDrawTextSmall \/ DoDrawTextMedium \/ DoDrawTextCentered
    \/ DoSetDisplayOn \/ DoSetContrast \/ DoSetInvert \/ DoDrawIter

Spec == Init /\ [][Next]_vars

(***************************************************************************)
(* Line specification: draw_horizontal_line and draw_vertical_line on any  *)
(* framebuffer, over spans that stay on the screen, run off its edge, and  *)
(* run past 255, in builds that wrap and builds that panic on overflow.    *)
(***************************************************************************)
\* <<start, other coordinate, length>> of a span
LineSamples ==
    {<<0, 0, 128>>, <<126, 3, 4>>, <<5, 9, 0>>, <<100, 63, 255>>, <<250, 3, 8>>,
     <<255, 9, 2>>, <<128, 5, 200>>, <<3, 64, 10>>, <<2, 255, 255>>}

LineHorizontal ==
    /\ ops < MaxLineOps
    /\ \E q \in LineSamples, wraps \in BOOLEAN, bus \in BusSome :
           DrawHorizontalLine(q[1], q[2], q[3], wraps, bus)

LineVertical ==
    /\ ops < MaxLineOps
    /\ \E q \in LineSamples, wraps \in BOOLEAN, bus \in BusSome :
           DrawVerticalLine(q[2], q[1], q[3], wraps, bus)

NextLine == LineHorizontal \/ LineVertical

SpecLine == InitPixel /\ [][NextLine]_vars

(***************************************************************************)
(* Single-pixel specification: draw_pixel under every bus failure, on a    *)
(* device that is or is not in step with the framebuffer.                  *)
(***************************************************************************)
SingleSamples ==
    {<<0, 0>>, <<5, 9>>, <<100, 20>>, <<127, 63>>,
     <<128, 0>>, <<0, 64>>, <<127, 64>>, <<255, 255>>}

InitSingle == \E b \in BufferSamples : \E r \in {PowerOnRam, RamOf(b)} : InitWith(b, r)

SingleDrawPixel ==
    /\ ops < MaxSingleOps
    /\ \E q \in SingleSamples, bus \in BusUpTo(4) : DrawPixel(q[1], q[2], bus)

SingleDisplay ==
    /\ ops < MaxSingleOps
    /\ Display(NoFail)

NextSingle == SingleDrawPixel \/ SingleDisplay

SpecSingle == InitSingle /\ [][NextSingle]_vars

(***************************************************************************)
(* Encoder specification: send_command, send_commands and send_data        *)
(* applied to commands and payloads of every interesting length.           *)
(***************************************************************************)
\* a payload of n bytes, byte i being (i * k + n) mod 256
Payload(n, k) == [i \in 1..n |-> (i * k + n) % 256]

PayloadLengths == {0, 1, 2, 127, 128, 129, 200, 255}

SendCommand(cmd, bus) ==
    /\ Alive
    /\ Commit(send_command(Io, bus, cmd))
    /\ buffer' = buffer
    /\ Record(OpRec("send_command", cmd, 0, 0, 0, FALSE, bus))

SendCommands(cmds, bus) ==
    /\ Alive
    /\ Commit(send_commands(Io, bus, cmds))
    /\ buffer' = buffer
    /\ Record(OpRec("send_commands", Len(cmds), 0, 0, 0, FALSE, bus))

SendData(n, k, bus) ==
    /\ Alive
    /\ Commit(send_data(Io, bus, Payload(n, k)))
    /\ buffer' = buffer
    /\ Record(OpRec("send_data", n, k, 0, 0, FALSE, bus))

EncoderSendCommand ==
    /\ ops < MaxEncoderOps
    /\ \E cmd \in {0, 174, 255}, bus \in BusUpTo(1) : SendCommand(cmd, bus)

EncoderSendCommands ==
    /\ ops < MaxEncoderOps
    /\ \E cmds \in {<<>>, <<129, 127>>, <<1, 2, 3>>}, bus \in BusUpTo(3) : SendCommands(cmds, bus)

EncoderSendData ==
    /\ ops < MaxEncoderOps
    /\ \E n \in PayloadLengths, k \in {1, 7}, bus \in BusUpTo(1) : SendData(n, k, bus)

NextEncoder == EncoderSendCommand \/ EncoderSendCommands \/ EncoderSendData

SpecEncoder == InitPixel /\ [][NextEncoder]_vars

(***************************************************************************)
(* Text specification: draw_text_centered over texts narrower and wider    *)
(* than the screen and glyph widths up to the ends of the i32 range, and   *)
(* draw_text_small at the positions it delegates to.                       *)
(***************************************************************************)
\* the text "Hi!" cut to n characters
TextOfLen(n) == SubSeq(<<72, 105, 33>>, 1, n)

TextCentered ==
    /\ ops < MaxTextOps
    /\ \/ \E n \in 1..3, wraps \in BOOLEAN,
             fw \in {6, 8, 43, 65, -3, 1073741824, 2147483647, -2147483647} :
              DrawTextCentered(TextOfLen(n), 10, fw, wraps, NoFail)
       \/ \E q \in {<<0, 60, 6>>, <<2, -4, 6>>, <<3, 60, 43>>}, bus \in BusSome :
              DrawTextCentered(TextOfLen(q[1]), q[2], q[3], FALSE, bus)

TextSmall ==
    /\ ops < MaxTextOps
    /\ \E q \in {<<2, 58, 10>>, <<3, 0, 10>>, <<3, -3, 60>>}, bus \in BusSome :
           DrawTextSmall(TextOfLen(q[1]), q[2], q[3], bus)

NextText == TextCentered \/ TextSmall

SpecText == InitPixel /\ [][NextText]_vars

(***************************************************************************)
(* Canvas specification: draw_iter fed with every short sequence of pixels *)
(* on the screen, off its edges, negative, and equal to an on-screen       *)
(* coordinate modulo 256.                                                  *)
(***************************************************************************)
CanvasPoints == {<<5, 9>>, <<127, 63>>, <<-1, 9>>, <<261, 9>>, <<5, -247>>, <<128, 64>>}

CanvasPixels == {Pixel(q[1], q[2], on) : q \in CanvasPoints, on \in BOOLEAN}

CanvasSequences ==
    {<<>>} \cup {<<a>> : a \in CanvasPixels} \cup {<<a, b>> : a, b \in CanvasPixels}
        \cup {<<Pixel(5, 9, TRUE), Pixel(5, 9, FALSE), Pixel(5, 9, TRUE)>>,
              <<Pixel(5, 9, FALSE), Pixel(5, 15, TRUE), Pixel(0, 0, TRUE), Pixel(5, 9, FALSE)>>}

CanvasDrawIter ==
    /\ ops < MaxCanvasOps
    /\ \E pixels \in CanvasSequences : DrawIter(pixels)

CanvasSetPixel ==
    /\ ops < MaxCanvasOps
    /\ \E on \in BOOLEAN : SetPixel(5, 9, on)

NextCanvas == CanvasDrawIter \/ CanvasSetPixel

SpecCanvas == InitPixel /\ [][NextCanvas]_vars

(***************************************************************************)
(* Rasterized-primitive specification: draw_rect, fill_rect, draw_line and *)
(* the three text primitives, on and off the screen, on a bus that works   *)
(* and on one that fails during the trailing flush.                        *)
(***************************************************************************)
\* <<x, y, width, height>> of a rectangle
RectSamples ==
    {<<0, 0, 128, 64>>, <<10, 30, 3, 4>>, <<125, 60, 5, 6>>, <<200, 100, 20, 20>>,
     <<5, 5, 0, 7>>, <<255, 255, 255, 1>>}

\* <<x0, y0, x1, y1>> of a line
LineEnds ==
    {<<64, 0, 127, 63>>, <<-2, 40, 3, 43>>, <<5, 9, 5, 9>>, <<130, 70, 140, 60>>,
     <<20, -5, 20, 55>>}

\* <<number of characters, x, y>> of a text
TextPlaces == {<<2, 58, 10>>, <<3, -3, 60>>, <<0, 5, 5>>, <<1, 200, 100>>}

\* the flush fails at its first write, or at the data write of its last page
RasterBus == {NoFail, [failAt |-> 1, applied |-> FALSE], [failAt |-> FlushWrites, applied |-> TRUE]}

RasterDrawRect ==
    /\ ops < MaxRasterOps
    /\ \E q \in RectSamples, bus \in RasterBus : DrawRect(q[1], q[2], q[3], q[4], bus)

RasterFillRect ==
    /\ ops < MaxRasterOps
    /\ \E q \in RectSamples, bus \in RasterBus : FillRect(q[1], q[2], q[3], q[4], bus)

RasterDrawLine ==
    /\ ops < MaxRasterOps
    /\ \E q \in LineEnds, bus \in RasterBus : DrawLine(q[1], q[2], q[3], q[4], bus)

RasterTextSmall ==
    /\ ops < MaxRasterOps
    /\ \E q \in TextPlaces, bus \in RasterBus : DrawTextSmall(TextOfLen(q[1]), q[2], q[3], bus)

RasterTextMedium ==
    /\ ops < MaxRasterOps
    /\ \E q \in TextPlaces, bus \in RasterBus : DrawTextMedium(TextOfLen(q[1]), q[2], q[3], bus)

RasterTextCentered ==
    /\ ops < MaxRasterOps
    /\ \E q \in {<<2, 6>>, <<3, 43>>, <<3, 65>>, <<2, 1073741824>>, <<1, -2147483647>>},
          wraps \in BOOLEAN, bus \in RasterBus :
           DrawTextCentered(TextOfLen(q[1]), 10, q[2], wraps, bus)

NextRaster ==
    \/ RasterDrawRect \/ RasterFillRect \/ RasterDrawLine
    \/ RasterTextSmall \/ RasterTextMedium \/ RasterTextCentered

SpecRaster == InitPixel /\ [][NextRaster]_vars

(***************************************************************************)
(* Properties.                                                             *)
(***************************************************************************)
InBounds(x, y) == x >= 0 /\ x < 128 /\ y >= 0 /\ y < 64

\* the k-th of the 32 writes of a full flush of buf
FlushBytes(buf, k) ==
    LET p == (k - 1) \div 4
        j == (k - 1) % 4
    IN  IF j = 0 THEN <<0, 176 + p>>
        ELSE IF j = 1 THEN <<0, 0>>
        ELSE IF j = 2 THEN <<0, 16>>
        ELSE <<64>> \o [i \in 1..128 |-> buf[p * 128 + i]]

ExpectedFlush(buf) == [k \in 1..32 |-> WriteEvent(60, FlushBytes(buf, k), TRUE)]

RamEqualsBuffer ==
    \A p \in 0..7 : \A c \in 0..127 : ram[p][c + 1] = buffer[p * 128 + c + 1]

RamPageIsBufferPage(p) == \A c \in 0..127 : ram[p][c + 1] = buffer[p * 128 + c + 1]

\* C1: display() on a bus whose writes all succeed returns success after exactly
\* 32 writes: for each page 0..7 in ascending order the set-page command, the two
\* column-0 commands and one data transaction holding the 128 bytes of that page
\* (128 zero bytes per page when the framebuffer is all zero).
C1_DisplayIssuesFullFlush ==
    (op.name = "display" /\ op.failAt = 0) =>
        /\ result = "ok"
        /\ Len(trace) = 32
        /\ trace = ExpectedFlush(buffer)
        /\ buffer = ZeroBuffer =>
               \A p \in 0..7 : trace[4 * p + 4].bytes = <<64>> \o [i \in 1..128 |-> 0]

C1_Witness ==
    /\ op.name = "display"
    /\ op.failAt = 0
    /\ result = "ok"
    /\ buffer = PatternBuffer
    /\ Len(trace[32].bytes) = 129

\* C2: after any sequence of operations that ends with a display() returning
\* success, the device RAM equals the framebuffer, page by page and column by
\* column.
C2_DisplaySyncsDevice ==
    (op.name = "display" /\ result = "ok") => RamEqualsBuffer

C2_Witness ==
    /\ op.name = "display"
    /\ result = "ok"
    /\ op2.name # "new"
    /\ buffer # ZeroBuffer
    /\ ram # preRam
    /\ RamEqualsBuffer

InitCommandBytes ==
    <<174, 213, 128, 168, 63, 211, 0, 64, 141, 18, 32, 2, 160, 200, 218, 18,
      129, 127, 217, 34, 219, 32, 164, 166, 175>>

ExpectedInit ==
    <<DelayEvent(20)>>
        \o [k \in 1..25 |-> WriteEvent(60, <<0, InitCommandBytes[k]>>, TRUE)]
        \o <<DelayEvent(100)>>

\* C3: init on a bus whose writes all succeed performs a 20 ms delay, then the 25
\* command writes [0x00, c] to address 0x3C in the documented order, then a
\* 100 ms delay, and returns success without changing the framebuffer.
C3_InitSequence ==
    (op.name = "init" /\ op.failAt = 0) =>
        /\ result = "ok"
        /\ trace = ExpectedInit
        /\ buffer = pre

C3_Witness ==
    /\ op.name = "init"
    /\ op.failAt = 0
    /\ result = "ok"
    /\ Len(trace) = 27
    /\ buffer = PatternBuffer

\* C4: when the i-th write of init fails, init returns the error at once: the
\* writes attempted are exactly the first i writes of the success sequence, no
\* later command is sent and the final 100 ms delay is not performed; likewise
\* send_commands (as used by set_contrast) never sends a command after the
\* first failing one.
C4_FirstFailureAborts ==
    /\ (op.name = "init" /\ op.failAt \in 1..25) =>
           /\ result = "err"
           /\ Len(trace) = op.failAt + 1
           /\ trace[1] = DelayEvent(20)
           /\ \A k \in 1..op.failAt :
                  /\ trace[k + 1].kind = "write"
                  /\ trace[k + 1].addr = 60
                  /\ trace[k + 1].bytes = <<0, InitCommandBytes[k]>>
                  /\ trace[k + 1].ok = (k < op.failAt)
    /\ (op.name = "set_contrast" /\ op.failAt \in 1..2) =>
           /\ result = "err"
           /\ Len(trace) = op.failAt
           /\ \A k \in 1..op.failAt :
                  /\ trace[k].bytes = <<0, <<129, op.x>>[k]>>
                  /\ trace[k].ok = (k < op.failAt)

C4_Witness ==
    /\ op.name = "init"
    /\ op.failAt = 7
    /\ result = "err"
    /\ Len(trace) = 8
    /\ trace[8].bytes = <<0, 0>>
    /\ ~trace[8].ok

\* C5: for every framebuffer content and every in-bounds (x, y), set_pixel(x, y,
\* on) makes bit y % 8 of byte (y / 8) * 128 + x equal to on and leaves every
\* other bit of every byte unchanged; the map from in-bounds pixels to (byte,
\* bit) pairs is one-to-one onto the 1024 x 8 bits of the framebuffer, with
\* (0,0) -> byte 0 bit 0, (127,63) -> byte 1023 bit 7, (5,9) -> byte 133 bit 1.
C5_SetPixelAddressing ==
    /\ (op.name = "set_pixel" /\ InBounds(op.x, op.y)) =>
           LET idx == (op.y \div 8) * 128 + op.x
               bit == op.y % 8
           IN  /\ Bit(buffer[idx + 1], bit) = (IF op.on THEN 1 ELSE 0)
               /\ \A k \in 0..7 : k # bit => Bit(buffer[idx + 1], k) = Bit(pre[idx + 1], k)
               /\ \A i \in 1..1024 : i # idx + 1 => buffer[i] = pre[i]
               /\ PixelIndex(op.x, op.y) = idx
               /\ PixelBit(op.y) = bit
    /\ op.name = "new" =>
           /\ \A x \in 0..127 : \A y \in 0..63 :
                  /\ PixelIndex(x, y) \in 0..1023
                  /\ PixelBit(y) \in 0..7
                  /\ PixelIndex(x, y) % 128 = x
                  /\ (PixelIndex(x, y) \div 128) * 8 + PixelBit(y) = y
           /\ \A i \in 0..1023 : \A k \in 0..7 :
                  /\ PixelIndex(i % 128, (i \div 128) * 8 + k) = i
                  /\ PixelBit((i \div 128) * 8 + k) = k
           /\ PixelIndex(0, 0) = 0 /\ PixelBit(0) = 0
           /\ PixelIndex(127, 63) = 1023 /\ PixelBit(63) = 7
           /\ PixelIndex(5, 9) = 133 /\ PixelBit(9) = 1

C5_Witness ==
    /\ op.name = "set_pixel"
    /\ op.x = 5 /\ op.y = 9 /\ op.on
    /\ pre = ZeroBuffer
    /\ buffer[134] = 2

\* C6: for every (x, y) with x >= 128 or y >= 64 and both values of on,
\* set_pixel(x, y, on) leaves the whole framebuffer unchanged and performs no
\* bus write.
C6_OutOfBoundsIgnored ==
    (op.name = "set_pixel" /\ (op.x >= 128 \/ op.y >= 64)) =>
        /\ buffer = pre
        /\ trace = <<>>
        /\ ram = preRam
        /\ result = "ok"

C6_Witness ==
    /\ op.name = "set_pixel"
    /\ op.x = 128 /\ op.y = 0 /\ ~op.on
    /\ pre = FullBuffer(255)
    /\ buffer = pre

\* the last two operations were set_pixel(x, y, true) then set_pixel(x, y, false)
\* on an in-bounds pixel
SetThenCleared ==
    /\ op2.name = "set_pixel" /\ op2.on
    /\ op.name = "set_pixel" /\ ~op.on
    /\ op.x = op2.x /\ op.y = op2.y
    /\ InBounds(op.x, op.y)

\* C7 as stated: set_pixel(x, y, true) followed by set_pixel(x, y, false)
\* restores the original framebuffer byte exactly, for every framebuffer content.
C7_Original ==
    SetThenCleared => buffer[PixelIndex(op.x, op.y) + 1] = pre2[PixelIndex(op.x, op.y) + 1]

\* C7: set_pixel(x, y, true) followed by set_pixel(x, y, false) on an in-bounds
\* pixel leaves the byte equal to the original byte with bit y % 8 cleared and
\* every other byte unchanged; the original byte is restored exactly when the
\* pixel was off before the pair.
C7_SetThenClearClearsBit ==
    SetThenCleared =>
        LET idx == (op.y \div 8) * 128 + op.x
            bit == op.y % 8
            was == Bit(pre2[idx + 1], bit)
        IN  /\ buffer[idx + 1] = pre2[idx + 1] - was * (2 ^ bit)
            /\ \A i \in 1..1024 : i # idx + 1 => buffer[i] = pre2[i]
            /\ was = 0 => buffer = pre2

C7_Witness ==
    /\ SetThenCleared
    /\ op.x = 127 /\ op.y = 63
    /\ pre2 = PatternBuffer
    /\ Bit(pre2[1024], 7) = 0
    /\ pre # pre2
    /\ buffer = pre2

\* C8: after any sequence of buffer-mutating operations clear_buffer() leaves
\* every one of the 1024 framebuffer bytes equal to 0, applying it again changes
\* nothing, and it performs no bus write.
C8_ClearBufferZeroes ==
    (op.name = "clear_buffer") =>
        /\ Len(buffer) = 1024
        /\ \A i \in 1..1024 : buffer[i] = 0
        /\ op2.name = "clear_buffer" => buffer = pre
        /\ trace = <<>>
        /\ ram = preRam

C8_Witness ==
    /\ op.name = "clear_buffer"
    /\ op2.name = "clear_buffer"
    /\ pre2 = PatternBuffer
    /\ buffer = ZeroBuffer

\* C9: when a bus write fails during display(), display() returns the error and
\* issues no further write; the framebuffer is unchanged by display() whether it
\* succeeds or fails; every page whose data transaction completed before the
\* failure equals the framebuffer page and every page after the failing one
\* keeps its previous content.
C9_DisplayFailureIsPartial ==
    /\ op.name = "display" => buffer = pre
    /\ (op.name = "display" /\ op.failAt \in 1..32) =>
           LET fp == (op.failAt - 1) \div 4
           IN  /\ result = "err"
               /\ Len(trace) = op.failAt
               /\ ~trace[op.failAt].ok
               /\ \A k \in 1..(op.failAt - 1) : trace[k] = ExpectedFlush(buffer)[k]
               /\ trace[op.failAt].bytes = FlushBytes(buffer, op.failAt)
               /\ \A p \in 0..7 : p < fp => RamPageIsBufferPage(p)
               /\ \A p \in 0..7 : p > fp => ram[p] = preRam[p]

C9_Witness ==
    /\ op.name = "display"
    /\ op.failAt = 14
    /\ result = "err"
    /\ buffer = PatternBuffer
    /\ RamPageIsBufferPage(2)
    /\ ram[2] # preRam[2]
    /\ ram[4] = preRam[4]
    /\ ~RamPageIsBufferPage(4)

Primitives ==
    {"draw_horizontal_line", "draw_vertical_line", "draw_rect", "fill_rect", "draw_line",
     "draw_text_small", "draw_text_medium", "draw_text_centered"}

\* C10: each drawing primitive applies all its framebuffer mutations and then
\* performs one full flush before returning: on a bus whose writes all succeed
\* its bus traffic is exactly the 32-write flush of the framebuffer as mutated,
\* and the device RAM equals the framebuffer when the call returns.
C10_PrimitivesFlush ==
    (op.name \in Primitives /\ op.failAt = 0 /\ result # "panic") =>
        /\ result = "ok"
        /\ trace = ExpectedFlush(buffer)
        /\ RamEqualsBuffer

C10_Witness ==
    /\ op.name = "fill_rect"
    /\ op.failAt = 0
    /\ result = "ok"
    /\ buffer # pre
    /\ Bit(buffer[3 * 128 + 10 + 1], 6) = 1
    /\ RamEqualsBuffer

\* page p of buf, as a sequence of 128 bytes
PageOf(buf, p) == SubSeq(buf, p * 128 + 1, p * 128 + 128)

\* the framebuffer bit of pixel (px, py)
PixelOf(buf, px, py) == Bit(buf[PixelIndex(px, py) + 1], PixelBit(py))

\* buf is before with exactly the pixels of Lit turned on in addition
TurnsOnExactly(buf, before, Lit(_, _)) ==
    \A px \in 0..127 : \A py \in 0..63 :
        PixelOf(buf, px, py) = (IF PixelOf(before, px, py) = 1 \/ Lit(px, py) THEN 1 ELSE 0)

\* C11 as stated: for all 8-bit x, y and width, draw_horizontal_line(x, y, width)
\* turns on exactly the pixels (x+i, y), 0 <= i < width, whose true sum x+i is
\* below 128 and y below 64, and changes no other framebuffer bit; likewise
\* draw_vertical_line(x, y, length) with y+i below 64 and x below 128; a point
\* whose coordinate exceeds the screen is clipped, never wrapped to a low
\* coordinate, also when x+i or y+i exceeds 255.
C11_Original ==
    /\ op.name = "draw_horizontal_line" =>
           LET Lit(px, py) == py = op.y /\ px >= op.x /\ px < op.x + op.w
           IN  result # "panic" /\ TurnsOnExactly(buffer, pre, Lit)
    /\ op.name = "draw_vertical_line" =>
           LET Lit(px, py) == px = op.x /\ py >= op.y /\ py < op.y + op.h
           IN  result # "panic" /\ TurnsOnExactly(buffer, pre, Lit)

\* buf is before except for the byte at index idx
SameExceptByte(buf, before, idx) == \A i \in 1..1024 : i # idx + 1 => buf[i] = before[i]

\* C12: draw_pixel(x, y) with in-bounds (x, y) turns the pixel on in the
\* framebuffer and, on a bus whose writes all succeed, issues exactly four
\* writes in order: [0x00, 0xB0 | (y/8)], [0x00, x & 0x0F], [0x00, 0x10 | (x >> 4)]
\* and [0x40, b], b being the updated byte of index (y/8)*128 + x; nothing else
\* is sent.  With out-of-bounds (x, y) it changes nothing, issues no bus write
\* and returns success.
C12_DrawPixelFourWrites ==
    /\ (op.name = "draw_pixel" /\ InBounds(op.x, op.y)) =>
           LET idx == (op.y \div 8) * 128 + op.x
               bit == op.y % 8
           IN  /\ Bit(buffer[idx + 1], bit) = 1
               /\ buffer[idx + 1] = pre[idx + 1] + (1 - Bit(pre[idx + 1], bit)) * (2 ^ bit)
               /\ SameExceptByte(buffer, pre, idx)
               /\ op.failAt = 0 =>
                      /\ result = "ok"
                      /\ trace = <<WriteEvent(60, <<0, 176 + (op.y \div 8)>>, TRUE),
                                   WriteEvent(60, <<0, op.x % 16>>, TRUE),
                                   WriteEvent(60, <<0, 16 + (op.x \div 16)>>, TRUE),
                                   WriteEvent(60, <<64, buffer[idx + 1]>>, TRUE)>>
    /\ (op.name = "draw_pixel" /\ ~InBounds(op.x, op.y)) =>
           /\ buffer = pre
           /\ trace = <<>>
           /\ ram = preRam
           /\ result = "ok"

C12_Witness ==
    /\ op.name = "draw_pixel"
    /\ op.x = 127 /\ op.y = 63
    /\ op.failAt = 0
    /\ pre = ZeroBuffer
    /\ result = "ok"
    /\ trace[1].bytes = <<0, 183>>
    /\ trace[2].bytes = <<0, 15>>
    /\ trace[3].bytes = <<0, 23>>
    /\ trace[4].bytes = <<64, 128>>

\* C13: send_data with a payload longer than 128 bytes (200 bytes, say) makes
\* exactly one bus transaction, the control byte 0x40 followed by the first 128
\* payload bytes, 129 bytes in all, and the remaining bytes are not sent at all;
\* with a payload of n bytes, 1 <= n <= 128, the single transaction is 0x40
\* followed by all n bytes.
C13_SendDataTruncates ==
    (op.name = "send_data" /\ op.x >= 1) =>
        LET data == Payload(op.x, op.y)
            sent == IF op.x > 128 THEN 128 ELSE op.x
        IN  /\ Len(trace) = 1
            /\ trace[1].kind = "write"
            /\ trace[1].addr = 60
            /\ Len(trace[1].bytes) = sent + 1
            /\ trace[1].bytes[1] = 64
            /\ \A i \in 1..sent : trace[1].bytes[i + 1] = data[i]
            /\ op.x > 128 => Len(trace[1].bytes) = 129
            /\ result = (IF op.failAt = 1 THEN "err" ELSE "ok")

C13_Witness ==
    /\ op.name = "send_data"
    /\ op.x = 200 /\ op.y = 7
    /\ result = "ok"
    /\ Len(trace) = 1
    /\ Len(trace[1].bytes) = 129
    /\ trace[1].bytes[129] = (128 * 7 + 200) % 256

\* C14: send_data with an empty payload performs no bus write and returns
\* success, whatever the bus would have answered.
C14_SendDataEmpty ==
    (op.name = "send_data" /\ op.x = 0) =>
        /\ trace = <<>>
        /\ result = "ok"
        /\ ram = preRam
        /\ buffer = pre

C14_Witness ==
    /\ op.name = "send_data"
    /\ op.x = 0
    /\ op.failAt = 1
    /\ result = "ok"
    /\ trace = <<>>

\* a command transaction: exactly two bytes, the first 0x00
IsCommandWrite(e) == Len(e.bytes) = 2 /\ e.bytes[1] = 0

\* a data transaction: 2 to 129 bytes, the first 0x40
IsDataWrite(e) == Len(e.bytes) >= 2 /\ Len(e.bytes) <= 129 /\ e.bytes[1] = 64

\* C15: in every reachable state, after any sequence of public operations,
\* every bus write the driver has issued is addressed to 0x3C and is either a
\* command transaction of exactly 2 bytes whose first byte is 0x00 or a data
\* transaction of 2 to 129 bytes whose first byte is 0x40; no other control
\* byte, address or length occurs.
C15_WireFormat ==
    \A k \in 1..Len(trace) :
        trace[k].kind = "write" =>
            /\ trace[k].addr = 60
            /\ IsCommandWrite(trace[k]) \/ IsDataWrite(trace[k])
            /\ \A i \in 1..Len(trace[k].bytes) : trace[k].bytes[i] \in 0..255

C15_Witness ==
    /\ op2.name = "display"
    /\ op.name = "draw_pixel"
    /\ Len(trace) = 4
    /\ IsCommandWrite(trace[3])
    /\ IsDataWrite(trace[4])
    /\ Len(trace[4].bytes) = 2
    /\ preRam # PowerOnRam

ControlOps == {"set_contrast", "set_invert", "set_display_on"}

\* the command bytes a control operation sends when no write fails
ControlCommands(o) ==
    IF o.name = "set_contrast" THEN <<129, o.x>>
    ELSE IF o.name = "set_invert" THEN (IF o.on THEN <<167>> ELSE <<166>>)
    ELSE (IF o.on THEN <<175>> ELSE <<174>>)

\* C16: the control operations are pure pass-through: set_contrast(v) sends
\* [0x00, 0x81] then [0x00, v], and does not send v when the first write fails;
\* set_invert(true) sends [0x00, 0xA7], set_invert(false) [0x00, 0xA6];
\* set_display_on(true) sends [0x00, 0xAF], set_display_on(false) [0x00, 0xAE];
\* in every case the framebuffer is unchanged and the result of the transport
\* is returned as it is.
C16_ControlPassThrough ==
    op.name \in ControlOps =>
        LET cmds == ControlCommands(op)
            n    == IF op.failAt = 0 THEN Len(cmds) ELSE op.failAt
        IN  /\ buffer = pre
            /\ Len(trace) = n
            /\ \A k \in 1..n : trace[k] = WriteEvent(60, <<0, cmds[k]>>, k # op.failAt)
            /\ result = (IF op.failAt = 0 THEN "ok" ELSE "err")

C16_Witness ==
    /\ op.name = "set_contrast"
    /\ op.x = 179
    /\ op.failAt = 1
    /\ result = "err"
    /\ Len(trace) = 1
    /\ trace[1].bytes = <<0, 129>>
    /\ buffer = PatternBuffer

\* (128 - n * w) / 2 in the integers, truncated towards zero, as a pair
ExactCentered(n, w) == WideHalf(WideSubFrom(128, WideMul(n, WideOf(w))))

\* n * w > c in the integers
WiderThan(n, w, c) ==
    LET tw == WideMul(n, WideOf(w)) IN tw.q > 0 \/ (tw.q = 0 /\ tw.r > c)

\* n * w or 128 - n * w leaves the i32 range
CenteredOverflows(n, w) ==
    \/ ~WideFits(WideMul(n, WideOf(w)))
    \/ ~WideFits(WideSubFrom(128, WideWrap(WideMul(n, WideOf(w)))))

\* the last call left what draw_text_small(text, op.x, op.y) leaves from the
\* same framebuffer, device and bus
SameAsTextSmall ==
    LET buf == draw_text_small(pre, TextOfLen(op.w), op.x, op.y)
        io  == display(NewIo(preRam, 0, 0), [failAt |-> op.failAt, applied |-> op.applied], buf)
    IN  /\ buffer = buf
        /\ trace = io.trace
        /\ result = io.res
        /\ ram = io.ram

\* C17 as stated: draw_text_centered(text, y, glyph_width) computes
\* x = (128 - len(text) * glyph_width) / 2 by integer division (58 for "Hi" with
\* glyph_width 6, negative when the text is wider than the screen) and behaves
\* exactly like draw_text_small(text, x, y).
C17_Original ==
    op.name = "draw_text_centered" =>
        /\ result # "panic"
        /\ WideOf(op.x) = ExactCentered(op.w, op.h)
        /\ WiderThan(op.w, op.h, 128) => op.x < 0
        /\ (op.w = 2 /\ op.h = 6) => op.x = 58
        /\ SameAsTextSmall

\* C17: draw_text_centered(text, y, glyph_width) computes
\* x = (128 - len(text) * glyph_width) / 2 in i32 with the quotient truncated
\* towards zero: 58 for "Hi" with glyph_width 6, 0 for a text 128 or 129 pixels
\* wide, negative exactly from 130 pixels on.  When the product or the
\* difference leaves the i32 range the call panics in a build that checks
\* overflow and goes on with the wrapped values otherwise.  Whenever it returns
\* it has behaved exactly like draw_text_small(text, x, y): same framebuffer
\* result and same bus writes.
C17_CenteredTruncates ==
    op.name = "draw_text_centered" =>
        /\ (result = "panic") = (~op.on /\ CenteredOverflows(op.w, op.h))
        /\ result # "panic" =>
               /\ ~CenteredOverflows(op.w, op.h) =>
                      /\ WideOf(op.x) = ExactCentered(op.w, op.h)
                      /\ (op.x < 0) = WiderThan(op.w, op.h, 129)
                      /\ (op.h >= -1000 /\ op.h <= 1000) =>
                             op.x = TruncDiv(128 - op.w * op.h, 2)
               /\ (op.w = 2 /\ op.h = 6) => op.x = 58
               /\ SameAsTextSmall

C17_Witness ==
    /\ op.name = "draw_text_centered"
    /\ op.w = 3 /\ op.h = 43
    /\ op.x = 0
    /\ op.failAt = 0
    /\ result = "ok"
    /\ pre = ZeroBuffer
    /\ buffer # pre
    /\ RamEqualsBuffer

\* the positions in pixels of the pairs whose coordinates are exactly (px, py)
Hits(pixels, px, py) == {k \in 1..Len(pixels) : pixels[k].x = px /\ pixels[k].y = py}

\* the bit of (px, py) after the pairs were applied in order to before: the
\* colour of the last pair naming it, its old value when no pair names it
BitAfter(before, pixels, px, py) ==
    LET hits == Hits(pixels, px, py)
    IN  IF hits = {} THEN PixelOf(before, px, py)
        ELSE LET last == CHOOSE k \in hits : \A j \in hits : j <= k
             IN  IF pixels[last].on THEN 1 ELSE 0

\* C18: the canvas adapter reports the fixed size (128, 64) and, for any finite
\* sequence of (signed coordinate, on/off) pairs, applies set_pixel(x, y, on) in
\* sequence order for exactly the pairs with 0 <= x < 128 and 0 <= y < 64,
\* ignores every pair with a negative or too large coordinate (no wrap-around
\* when narrowing to 8 bits), never fails and performs no bus write.
C18_CanvasAdapter ==
    /\ size = <<128, 64>>
    /\ op.name = "draw_iter" =>
           LET named == {k \in 1..Len(op.pixels) : InBounds(op.pixels[k].x, op.pixels[k].y)}
               bytes == {(op.pixels[k].y \div 8) * 128 + op.pixels[k].x : k \in named}
           IN  /\ \A p \in 0..7 :
                      \/ PageOf(buffer, p) = PageOf(pre, p)
                      \/ \A c \in 0..127 :
                             p * 128 + c \notin bytes =>
                                 buffer[p * 128 + c + 1] = pre[p * 128 + c + 1]
               /\ \A i \in bytes : \A b \in 0..7 :
                      Bit(buffer[i + 1], b)
                          = BitAfter(pre, op.pixels, i % 128, (i \div 128) * 8 + b)
               /\ named = {} => buffer = pre
               /\ result = "ok"
               /\ trace = <<>>
               /\ ram = preRam

C18_Witness ==
    /\ op.name = "draw_iter"
    /\ op.pixels = <<Pixel(261, 9, TRUE), Pixel(127, 63, TRUE)>>
    /\ pre = ZeroBuffer
    /\ buffer[134] = 0
    /\ buffer[1024] = 128
    /\ result = "ok"

\* r and buf agree everywhere except, possibly, at the byte of index idx
RamIsExceptByte(r, buf, idx) ==
    \A p \in 0..7 : \A c \in 0..127 :
        p * 128 + c # idx => r[p][c + 1] = buf[p * 128 + c + 1]

\* C19: draw_pixel preserves the synchronisation of device and framebuffer: if
\* the device RAM equals the framebuffer before draw_pixel(x, y) and the call
\* returns success, the device RAM equals the framebuffer afterwards, for
\* every (x, y) in or out of bounds; after a failed draw_pixel the framebuffer
\* bit is set nevertheless, so that the two differ in that one byte at most.
C19_DrawPixelKeepsSync ==
    (op.name = "draw_pixel" /\ preRam = RamOf(pre)) =>
        /\ result \in {"ok", "err"}
        /\ result = "ok" => RamEqualsBuffer
        /\ result = "err" =>
               /\ InBounds(op.x, op.y)
               /\ PixelOf(buffer, op.x, op.y) = 1
               /\ RamIsExceptByte(ram, buffer, (op.y \div 8) * 128 + op.x)

C19_Witness ==
    /\ op.name = "draw_pixel"
    /\ op.x = 100 /\ op.y = 20
    /\ preRam = RamOf(pre)
    /\ result = "ok"
    /\ buffer # pre
    /\ ram # preRam
    /\ RamEqualsBuffer

DrawingOps ==
    {"draw_pixel", "draw_horizontal_line", "draw_vertical_line", "draw_rect", "fill_rect",
     "draw_line", "draw_text_small", "draw_text_medium", "draw_text_centered"}

\* every bit that is 1 in before is 1 in buf
KeepsLitBits(buf, before) ==
    \A p \in 0..7 :
        \/ PageOf(buf, p) = PageOf(before, p)
        \/ \A i \in (p * 128 + 1)..(p * 128 + 128) :
               buf[i] = before[i] \/ BitAnd(before[i], buf[i]) = before[i]

\* the operations through which a pixel may be turned off
MayTurnOff(o) ==
    \/ o.name \in {"clear_buffer", "clear"}
    \/ o.name = "set_pixel" /\ ~o.on
    \/ o.name = "draw_iter" /\ \E k \in 1..Len(o.pixels) : ~o.pixels[k].on

\* C20: the drawing operations of the driver only ever turn pixels on: after
\* draw_pixel, draw_horizontal_line, draw_vertical_line, draw_rect, fill_rect,
\* draw_line, draw_text_small, draw_text_medium or draw_text_centered every
\* framebuffer bit that was 1 before the call is still 1, whether the call
\* succeeded or failed; a bit goes from 1 to 0 only through clear_buffer, clear,
\* set_pixel(.., false) or an "off" pixel delivered through the canvas adapter.
C20_DrawingOnlyTurnsOn ==
    /\ op.name \in DrawingOps => KeepsLitBits(buffer, pre)
    /\ ~KeepsLitBits(buffer, pre) => MayTurnOff(op)

C20_Witness ==
    /\ op.name = "draw_rect"
    /\ result = "err"
    /\ op2.name = "draw_text_medium"
    /\ pre # ZeroBuffer
    /\ buffer # pre
    /\ KeepsLitBits(buffer, pre)

RasterOps ==
    {"draw_rect", "fill_rect", "draw_line", "draw_text_small", "draw_text_medium",
     "draw_text_centered"}

\* C21 as stated: the mapping of rasterizer errors to the transport error is
\* never triggered: on a bus whose writes all succeed draw_rect, fill_rect,
\* draw_line, draw_text_small, draw_text_medium and draw_text_centered return
\* success for all arguments; every error they return is the error of a bus
\* write of the trailing flush, made after the framebuffer was mutated, and
\* the mutation is not rolled back.
C21_Original ==
    op.name \in RasterOps =>
        /\ result \in {"ok", "err"}
        /\ op.failAt = 0 => result = "ok"
        /\ result = "err" =>
               /\ op.failAt \in 1..32
               /\ Len(trace) = op.failAt
               /\ ~trace[op.failAt].ok
               /\ trace[op.failAt].bytes = FlushBytes(buffer, op.failAt)
               /\ \A k \in 1..(op.failAt - 1) : trace[k] = ExpectedFlush(buffer)[k]

====
